---- MODULE Spec2Model ----
(***************************************************************************)
(* SkillSPrint backend (backend/server.js, carried in App.jsx): the HTTP   *)
(* dispatcher, its header authentication and admin authorization, the      *)
(* lesson-reflection workflow, and the sprint and user management routes.  *)
(* The database tables are the state; one action per route handler.        *)
(***************************************************************************)
EXTENDS Integers, Sequences, FiniteSets, TLC

VARIABLES users, reflections, nextReflId, now, response,
          sprints, nextSprintId, flights, dbQueue, progress, notes, session

vars == <<users, reflections, nextReflId, now, response,
          sprints, nextSprintId, flights, dbQueue, progress, notes, session>>

\* the toggle requests in progress and the queries they wait for
inProgress == <<flights, dbQueue>>
\* the tables of the reflection routes
reflVars == <<reflections, nextReflId>>
\* everything a reflection write leaves alone
reflFrame == <<users, now, sprints, nextSprintId, inProgress, progress, notes, session>>
\* the database
stored == <<users, reflVars, sprints, nextSprintId, progress, notes>>

(***************************************************************************)
(* Bounds of the model                                                     *)
(***************************************************************************)
\* NOW() advances at most this far
MaxNow == 1
\* rows the sprints table ever gets
MaxSprints == 2
\* PUT /api/sprints/:id/active requests in progress at the same time
MaxInFlight == 2

(***************************************************************************)
(* Domains of the request inputs                                           *)
(***************************************************************************)
\* SQL NULL / JS null in a numeric column
NULL == -1

\* ids a users row can have; 3 never has a row in the reflection runs and 9,
\* the id the dashboard falls back to, has none at all
UserIds == {1, 2, 3, 9}
\* lessons table
Lessons == {1}
\* lesson ids of the request paths
LessonIds == {1}

NoHeader == [present |-> FALSE, text |-> <<>>]
Hdr(s) == [present |-> TRUE, text |-> s]
\* X-User-Id values: absent, "a", "0", "-1", "1", "2", "3", "2a"
Headers ==
  {NoHeader, Hdr(<<"a">>), Hdr(<<"0">>), Hdr(<<"-", "1">>), Hdr(<<"1">>),
   Hdr(<<"2">>), Hdr(<<"3">>), Hdr(<<"2", "a">>)}

\* request bodies of the three reflection writes: malformed JSON, no
\* reflection_text field, "", " ", " x"
BadJson == [json |-> FALSE, has |-> FALSE, text |-> <<>>]
NoText == [json |-> TRUE, has |-> FALSE, text |-> <<>>]
Text(s) == [json |-> TRUE, has |-> TRUE, text |-> s]
TextBodies ==
  {BadJson, NoText, Text(<<>>), Text(<<" ">>), Text(<<" ", "x">>)}

(***************************************************************************)
(* parseInt(userIdHeader, 10) and authenticate()                           *)
(***************************************************************************)
IsDigit(c) == c \in {"0", "1", "2", "3", "4", "5", "6", "7", "8", "9"}

DigitVal(c) ==
  CASE c = "0" -> 0 [] c = "1" -> 1 [] c = "2" -> 2 [] c = "3" -> 3
    [] c = "4" -> 4 [] c = "5" -> 5 [] c = "6" -> 6 [] c = "7" -> 7
    [] c = "8" -> 8 [] c = "9" -> 9

\* the longest prefix of s made of decimal digits
RECURSIVE DigitPrefix(_)
DigitPrefix(s) ==
  IF s = <<>> \/ ~IsDigit(Head(s)) THEN <<>>
  ELSE <<Head(s)>> \o DigitPrefix(Tail(s))

RECURSIVE DigitsValue(_, _)
DigitsValue(s, acc) ==
  IF s = <<>> THEN acc ELSE DigitsValue(Tail(s), acc * 10 + DigitVal(Head(s)))

RECURSIVE SkipSpaces(_)
SkipSpaces(s) ==
  IF s # <<>> /\ Head(s) = " " THEN SkipSpaces(Tail(s)) ELSE s

\* parseInt(s, 10): leading white space, an optional sign, then the digits
\* up to the first character that is not one; NaN when there is no digit
ParseInt(s) ==
  LET t == SkipSpaces(s)
      signed == t # <<>> /\ Head(t) \in {"-", "+"}
      body == IF signed THEN Tail(t) ELSE t
      ds == DigitPrefix(body)
      mag == DigitsValue(ds, 0)
  IN IF ds = <<>> THEN [k |-> "nan", v |-> 0]
     ELSE [k |-> "int", v |-> IF signed /\ Head(t) = "-" THEN 0 - mag ELSE mag]

\* const userId = userIdHeader ? parseInt(userIdHeader, 10) : null
UserIdOf(hdr) ==
  IF ~hdr.present \/ hdr.text = <<>> THEN [k |-> "null", v |-> 0]
  ELSE ParseInt(hdr.text)

\* authenticate(): false (and a 401) iff !userId || isNaN(userId) || userId <= 0
authenticate(hdr) ==
  LET userId == UserIdOf(hdr)
  IN ~(\/ userId.k = "null"
       \/ (userId.k = "int" /\ userId.v = 0)
       \/ userId.k = "nan"
       \/ (userId.k = "int" /\ userId.v <= 0))

\* the check without its results.length === 0 arm: an id with no users row passes
authorizeAdmin_NoRowPasses(hdr) ==
  LET userId == UserIdOf(hdr).v
  IN userId \in DOMAIN users /\ users[userId] \in {"admin", "none"}

\* SELECT role FROM users WHERE id = ?: no row or role # 'admin' is a 403
authorizeAdmin(hdr) ==
  LET userId == UserIdOf(hdr).v
  IN userId \in DOMAIN users /\ users[userId] = "admin"

(***************************************************************************)
(* String.prototype.trim                                                   *)
(***************************************************************************)
RECURSIVE TrimRight(_)
TrimRight(s) ==
  IF s # <<>> /\ s[Len(s)] = " " THEN TrimRight(SubSeq(s, 1, Len(s) - 1)) ELSE s

Trim(s) == TrimRight(SkipSpaces(s))

\* !reflection_text
TextFalsy(body) == ~body.has \/ body.text = <<>>
\* the test without the trim
TrimmedFalsy_NoTrim(body) == ~body.has \/ body.text = <<>>

\* !reflection_text?.trim()
TrimmedFalsy(body) == ~body.has \/ Trim(body.text) = <<>>

(***************************************************************************)
(* lesson_reflections table                                                *)
(***************************************************************************)
Pairs == UserIds \X LessonIds

NoRow ==
  [id |-> 0, text |-> <<>>, status |-> "none", score |-> NULL,
   admin_feedback |-> <<>>, submitted_at |-> NULL, marked_at |-> NULL]

HasRow(p) == reflections[p].id # 0

\* the foreign keys of lesson_reflections: user_id -> users, lesson_id -> lessons
ForeignKeyOk(u, l) == u \in DOMAIN users /\ users[u] # "none" /\ l \in Lessons

(***************************************************************************)
(* sprints table and the toggle requests in progress                       *)
(***************************************************************************)
\* ids of the request paths: the last one never has a row
SprintIds == 1..(MaxSprints + 1)
Slots == 1..MaxInFlight

NoSprint == [exists |-> FALSE, is_active |-> FALSE, max_duration_seconds |-> 0]
\* touched: the sprints whose is_active the queries of the request changed
NoFlight ==
  [pc |-> "idle", hdr |-> NoHeader, id |-> 0, shouldActivate |-> FALSE,
   code |-> 0, overlapped |-> FALSE, touched |-> {}]

(***************************************************************************)
(* sprint_progress and user_notes tables                                   *)
(***************************************************************************)
NoProgress == [exists |-> FALSE, progress_percentage |-> 0, is_completed |-> 0]
\* the unique key of sprint_progress: (user_id, sprint_id)
ProgressKeys == UserIds \X SprintIds

\* content types and ids of the notes requests: "n" and "N"
ContentTypes == {<<"n">>, <<"N">>}
ContentIds == {0, 1}
NoteKeys == UserIds \X ContentTypes \X ContentIds
NoNote == [exists |-> FALSE, note_text |-> <<>>]

\* sessionStorage of the browser: getItem gives null for a key never set
NoItem == [has |-> FALSE, text |-> <<>>]
Item(text) == [has |-> TRUE, text |-> text]
NoSession == [userId |-> NoItem, userName |-> NoItem]

Reply(route, hdr, code, lesson, body, data) ==
  [route |-> route, hdr |-> hdr, code |-> code, lesson |-> lesson,
   body |-> body, data |-> data]

NoData == <<>>

NoResponse == Reply("none", NoHeader, 0, 0, NoText, NoData)

\* the server is between two requests: the last response has been sent
Idle == response.route = "none"

Init ==
  /\ users = [u \in UserIds |-> IF u = 1 THEN "admin" ELSE IF u = 2 THEN "user" ELSE "none"]
  /\ session = NoSession
  /\ reflections = [p \in Pairs |-> NoRow]
  /\ nextReflId = 1
  /\ now = 0
  /\ response = NoResponse
  /\ sprints = [i \in SprintIds |-> NoSprint]
  /\ nextSprintId = 1
  /\ flights = [r \in Slots |-> NoFlight]
  /\ dbQueue = <<>>
  /\ progress = [k \in ProgressKeys |-> NoProgress]
  /\ notes = [k \in NoteKeys |-> NoNote]

\* the clock read by NOW() moves on between requests
Tick ==
  /\ Idle
  /\ now < MaxNow
  /\ now' = now + 1
  /\ UNCHANGED <<stored, inProgress, response, session>>

(***************************************************************************)
(* Reflection routes                                                       *)
(***************************************************************************)
Caller(hdr) == UserIdOf(hdr).v

\* res.end(): the exchange is over and the next request can be taken
EndResponse ==
  /\ ~Idle
  /\ response' = NoResponse
  /\ UNCHANGED <<stored, inProgress, now, session>>

\* a reply that leaves every table as it is
Answer(route, hdr, code, lesson, body, data) ==
  /\ response' = Reply(route, hdr, code, lesson, body, data)
  /\ UNCHANGED <<stored, inProgress, now, session>>

\* the row a first INSERT creates: the columns not named take their defaults
InsertedRow(text, status, submitted_at) ==
  [id |-> nextReflId, text |-> text, status |-> status, score |-> NULL,
   admin_feedback |-> <<>>, submitted_at |-> submitted_at, marked_at |-> NULL]

\* result.affectedRows of an UPDATE ... WHERE user_id = ? AND lesson_id = ?
affectedRows(p) == IF HasRow(p) THEN 1 ELSE 0

\* upsertQuery: INSERT ... VALUES (?, ?, ?, 'draft') ON DUPLICATE KEY UPDATE
\* reflection_text = VALUES(reflection_text), status = 'draft'
upsertQuery_KeepStatus(p, text) ==
  IF HasRow(p)
  THEN [reflections EXCEPT ![p].text = text]
  ELSE [reflections EXCEPT ![p] = InsertedRow(text, "draft", NULL)]

upsertQuery(p, text) ==
  IF HasRow(p)
  THEN [reflections EXCEPT ![p].text = text, ![p].status = "draft"]
  ELSE [reflections EXCEPT ![p] = InsertedRow(text, "draft", NULL)]

\* submitQuery: INSERT ... VALUES (?, ?, ?, 'submitted', NOW()) ON DUPLICATE
\* KEY UPDATE reflection_text, status = 'submitted', submitted_at = NOW()
submitQuery_InsertOnly(p, text) ==
  IF HasRow(p)
  THEN reflections
  ELSE [reflections EXCEPT ![p] = InsertedRow(text, "submitted", now)]

submitQuery(p, text) ==
  IF HasRow(p)
  THEN [reflections EXCEPT ![p].text = text, ![p].status = "submitted",
                           ![p].submitted_at = now]
  ELSE [reflections EXCEPT ![p] = InsertedRow(text, "submitted", now)]

\* resubmitQuery: UPDATE lesson_reflections SET reflection_text = ?,
\* status = 'submitted', submitted_at = NOW() WHERE user_id = ? AND lesson_id = ?
resubmitQuery_Upsert(p, text) ==
  IF HasRow(p)
  THEN [reflections EXCEPT ![p].text = text, ![p].status = "submitted",
                           ![p].submitted_at = now]
  ELSE [reflections EXCEPT ![p] = InsertedRow(text, "submitted", now)]

resubmitQuery(p, text) ==
  IF HasRow(p)
  THEN [reflections EXCEPT ![p].text = text, ![p].status = "submitted",
                           ![p].submitted_at = now]
  ELSE reflections

\* the auto-increment counter moves when a row is inserted
Inserted(p) == IF HasRow(p) THEN nextReflId ELSE nextReflId + 1

\* the handler without its results.length === 0 branch: 404 for a pair
\* with no row
GetReflection_NoDefault(hdr, lesson) ==
  LET p == <<Caller(hdr), lesson>>
  IN Idle /\
     IF ~authenticate(hdr) THEN Answer("reflection.get", hdr, 401, lesson, NoText, NoData)
     ELSE IF ~HasRow(p)
       THEN Answer("reflection.get", hdr, 404, lesson, NoText, NoData)
       ELSE Answer("reflection.get", hdr, 200, lesson, NoText, reflections[p])

\* GET /api/lessons/:id/reflection
GetReflection(hdr, lesson) ==
  LET p == <<Caller(hdr), lesson>>
  IN Idle /\
     IF ~authenticate(hdr) THEN Answer("reflection.get", hdr, 401, lesson, NoText, NoData)
     ELSE IF ~HasRow(p)
       THEN Answer("reflection.get", hdr, 200, lesson, NoText,
                   [NoRow EXCEPT !.status = "draft"])
       ELSE Answer("reflection.get", hdr, 200, lesson, NoText, reflections[p])

\* POST /api/lessons/:id/reflection (save draft)
SaveDraft(hdr, lesson, body) ==
  LET p == <<Caller(hdr), lesson>>
  IN Idle /\
     IF ~authenticate(hdr) THEN Answer("reflection.draft", hdr, 401, lesson, body, NoData)
     ELSE IF ~body.json \/ TextFalsy(body)
       THEN Answer("reflection.draft", hdr, 400, lesson, body, NoData)
     ELSE IF ~HasRow(p) /\ ~ForeignKeyOk(p[1], p[2])
       THEN Answer("reflection.draft", hdr, 500, lesson, body, NoData)
     ELSE /\ reflections' = upsertQuery(p, body.text)
          /\ nextReflId' = Inserted(p)
          /\ response' = Reply("reflection.draft", hdr, 200, lesson, body, NoData)
          /\ UNCHANGED reflFrame

\* POST /api/lessons/:id/reflection/submit
Submit(hdr, lesson, body) ==
  LET p == <<Caller(hdr), lesson>>
  IN Idle /\
     IF ~authenticate(hdr) THEN Answer("reflection.submit", hdr, 401, lesson, body, NoData)
     ELSE IF ~body.json \/ TrimmedFalsy(body)
       THEN Answer("reflection.submit", hdr, 400, lesson, body, NoData)
     ELSE IF ~HasRow(p) /\ ~ForeignKeyOk(p[1], p[2])
       THEN Answer("reflection.submit", hdr, 500, lesson, body, NoData)
     ELSE /\ reflections' = submitQuery(p, body.text)
          /\ nextReflId' = Inserted(p)
          /\ response' = Reply("reflection.submit", hdr, 200, lesson, body, NoData)
          /\ UNCHANGED reflFrame

\* POST /api/lessons/:id/reflection/resubmit
Resubmit(hdr, lesson, body) ==
  LET p == <<Caller(hdr), lesson>>
  IN Idle /\
     IF ~authenticate(hdr) THEN Answer("reflection.resubmit", hdr, 401, lesson, body, NoData)
     ELSE IF ~body.json \/ TrimmedFalsy(body)
       THEN Answer("reflection.resubmit", hdr, 400, lesson, body, NoData)
     ELSE /\ reflections' = resubmitQuery(p, body.text)
          /\ response' = Reply("reflection.resubmit", hdr,
                               IF affectedRows(p) = 0 THEN 404 ELSE 200,
                               lesson, body, NoData)
          /\ UNCHANGED <<reflFrame, nextReflId>>

\* WHERE lr.status = 'submitted'
SubmittedPairs(refl) == {p \in Pairs : refl[p].status = "submitted"}

\* the selection without its ORDER BY: the submitted rows in any order
SubmittedLists_Unordered ==
  {s \in [1..Cardinality(SubmittedPairs(reflections)) -> SubmittedPairs(reflections)] :
     \A i, j \in DOMAIN s : i # j => s[i] # s[j]}

\* ORDER BY lr.submitted_at ASC: every order of the submitted rows that is
\* ascending in submitted_at (rows with equal stamps come in either order)
SubmittedLists ==
  {s \in [1..Cardinality(SubmittedPairs(reflections)) -> SubmittedPairs(reflections)] :
     /\ \A i, j \in DOMAIN s : i # j => s[i] # s[j]
     /\ \A i, j \in DOMAIN s :
          i < j => reflections[s[i]].submitted_at <= reflections[s[j]].submitted_at}

\* GET /api/reflections/submitted
ListSubmitted(hdr) ==
  Idle /\
  IF ~authenticate(hdr) THEN Answer("reflections.submitted", hdr, 401, 0, NoText, NoData)
  ELSE IF ~authorizeAdmin(hdr)
    THEN Answer("reflections.submitted", hdr, 403, 0, NoText, NoData)
  ELSE \E s \in SubmittedLists :
         Answer("reflections.submitted", hdr, 200, 0, NoText,
                [i \in DOMAIN s |-> reflections[s[i]].id])

\* WHERE id = ?
RowsWithId(rid) == {p \in Pairs : HasRow(p) /\ reflections[p].id = rid}

\* the update without its WHERE id = ?: every row is marked
markQuery_EveryRow(body) ==
  [p \in Pairs |->
     IF HasRow(p)
     THEN [reflections[p] EXCEPT
             !.score = IF body.score.k = "null" THEN NULL ELSE body.score.v,
             !.admin_feedback = body.admin_feedback,
             !.status = body.status,
             !.marked_at = now]
     ELSE reflections[p]]

\* markQuery: UPDATE lesson_reflections SET score = ?, admin_feedback = ?,
\* status = ?, marked_at = NOW() WHERE id = ?
markQuery(body) ==
  [p \in Pairs |->
     IF p \in RowsWithId(body.reflection_id)
     THEN [reflections[p] EXCEPT
             !.score = IF body.score.k = "null" THEN NULL ELSE body.score.v,
             !.admin_feedback = body.admin_feedback,
             !.status = body.status,
             !.marked_at = now]
     ELSE reflections[p]]

\* POST /api/reflections/mark
Mark(hdr, body) ==
  Idle /\
  IF ~authenticate(hdr) THEN Answer("reflections.mark", hdr, 401, 0, body, NoData)
  ELSE IF ~authorizeAdmin(hdr)
    THEN Answer("reflections.mark", hdr, 403, 0, body, NoData)
  ELSE IF ~body.json
    THEN Answer("reflections.mark", hdr, 400, 0, body, NoData)
  ELSE IF body.reflection_id = 0 \/ body.score.k = "undefined"
          \/ body.admin_feedback = <<>>
    THEN Answer("reflections.mark", hdr, 400, 0, body, NoData)
  ELSE IF body.score.k = "num" /\ (body.score.v < 0 \/ body.score.v > 10)
    THEN Answer("reflections.mark", hdr, 400, 0, body, NoData)
  ELSE IF body.status \notin {"marked", "rejected"}
    THEN Answer("reflections.mark", hdr, 400, 0, body, NoData)
  ELSE /\ reflections' = markQuery(body)
       /\ response' = Reply("reflections.mark", hdr,
                            IF RowsWithId(body.reflection_id) = {} THEN 404 ELSE 200,
                            0, body, NoData)
       /\ UNCHANGED <<reflFrame, nextReflId>>

\* mark requests of the reflection runs: ids 1 and 2 can exist, 3 never does
Num(n) == [k |-> "num", v |-> n]
MarkBody(rid, score, fb, st) ==
  [json |-> TRUE, reflection_id |-> rid, score |-> score,
   admin_feedback |-> fb, status |-> st]
MarkBodies ==
  {MarkBody(rid, sc, <<"g">>, st) :
     rid \in 1..3, sc \in {Num(7)}, st \in {"marked", "rejected"}}

\* callers of the reflection runs: no header, the admin, a user, an id
\* without a users row
ReflHeaders == {NoHeader, Hdr(<<"1">>), Hdr(<<"2">>), Hdr(<<"3">>)}

NextRefl ==
  \/ Tick
  \/ EndResponse
  \/ \E hdr \in ReflHeaders, l \in LessonIds : GetReflection(hdr, l)
  \/ \E hdr \in ReflHeaders, l \in LessonIds, b \in TextBodies : SaveDraft(hdr, l, b)
  \/ \E hdr \in ReflHeaders, l \in LessonIds, b \in TextBodies : Submit(hdr, l, b)
  \/ \E hdr \in ReflHeaders, l \in LessonIds, b \in TextBodies : Resubmit(hdr, l, b)
  \/ \E hdr \in ReflHeaders : ListSubmitted(hdr)
  \/ \E hdr \in ReflHeaders, b \in MarkBodies : Mark(hdr, b)

SpecRefl == Init /\ [][NextRefl]_vars

(***************************************************************************)
(* Properties of the reflection workflow                                   *)
(***************************************************************************)
\* the request that was answered last
ReqPair == <<Caller(response.hdr), response.lesson>>
ReqPairNext == <<Caller(response'.hdr), response'.lesson>>
\* a header that names a stored user: a positive integer with a users row
NamesUser(hdr) ==
  /\ hdr.present
  /\ hdr.text \in {<<"1">>, <<"2">>, <<"3">>}
  /\ users[Caller(hdr)] # "none"
NonBlank(s) == \E i \in DOMAIN s : s[i] # " "

\* C1: a reflection's status becomes marked or rejected only from status
\* submitted: a successful mark finds its target row in status submitted.
C1_MarkOnlyFromSubmitted ==
  [][(response'.route = "reflections.mark" /\ response'.code = 200)
       => \A p \in Pairs :
            (HasRow(p) /\ reflections[p].id = response'.body.reflection_id)
              => reflections[p].status = "submitted"]_vars

\* C2: a caller with a valid id whose stored role is not admin (or who has
\* no users row) gets 403 from GET /api/reflections/submitted and from POST
\* /api/reflections/mark, whether or not the reflection id exists, and no
\* reflection changes.
C2_NonAdminForbidden ==
  [][(/\ response'.route \in {"reflections.submitted", "reflections.mark"}
      /\ response'.hdr.present
      /\ response'.hdr.text \in {<<"1">>, <<"2">>, <<"3">>}
      /\ users[Caller(response'.hdr)] # "admin")
       => (response'.code = 403 /\ reflections' = reflections)]_vars

\* a user without the admin role was refused a mark of an id that no row has
C2_Witness ==
  /\ response.route = "reflections.mark"
  /\ response.code = 403
  /\ users[Caller(response.hdr)] = "user"
  /\ \A p \in Pairs : reflections[p].id # response.body.reflection_id

\* C8: submit with non-blank text by a stored user succeeds from every prior
\* state of the pair: it answers 200, the pair's row has the submitted text,
\* status submitted and submitted_at = NOW(), no other row changes, and a
\* repeat of the same submit leaves text and status as they are.
C8_SubmitFromAnyState ==
  [][(/\ response'.route = "reflection.submit"
      /\ NamesUser(response'.hdr)
      /\ response'.body.json /\ response'.body.has
      /\ NonBlank(response'.body.text))
       => (/\ response'.code = 200
           /\ reflections'[ReqPairNext].id # 0
           /\ reflections'[ReqPairNext].text = response'.body.text
           /\ reflections'[ReqPairNext].status = "submitted"
           /\ reflections'[ReqPairNext].submitted_at = now
           /\ \A q \in Pairs \ {ReqPairNext} : reflections'[q] = reflections[q]
           /\ \A q \in Pairs \ {ReqPairNext} :
                reflections'[q].id # reflections'[ReqPairNext].id
           /\ (reflections[ReqPairNext].status = "submitted"
               /\ reflections[ReqPairNext].text = response'.body.text)
                => (/\ reflections'[ReqPairNext].text = reflections[ReqPairNext].text
                    /\ reflections'[ReqPairNext].status = "submitted"))]_vars

\* a submit was accepted on a row that had been marked or rejected before
C8_Witness ==
  /\ response.route = "reflection.submit"
  /\ response.code = 200
  /\ reflections[ReqPair].status = "submitted"
  /\ reflections[ReqPair].marked_at # NULL
  /\ reflections[ReqPair].submitted_at = now

\* C9: resubmit with non-blank text for a pair without a row answers 404 and
\* creates no row; on an existing row, whatever its status, it answers 200
\* and sets the text, status submitted and submitted_at = NOW(); a GET of
\* the reflection creates no row.
C9_ResubmitNeedsRow ==
  [][/\ (/\ response'.route = "reflection.resubmit"
         /\ authenticate(response'.hdr)
         /\ response'.body.json /\ response'.body.has
         /\ NonBlank(response'.body.text))
          => IF reflections[ReqPairNext].id = 0
             THEN response'.code = 404 /\ reflections' = reflections
             ELSE /\ response'.code = 200
                  /\ reflections' =
                       [reflections EXCEPT
                          ![ReqPairNext].text = response'.body.text,
                          ![ReqPairNext].status = "submitted",
                          ![ReqPairNext].submitted_at = now]
     /\ response'.route = "reflection.get" => reflections' = reflections]_vars

\* a resubmit was answered 404 and the pair still has no row
C9_Witness ==
  /\ response.route = "reflection.resubmit"
  /\ response.code = 404
  /\ NonBlank(response.body.text)
  /\ users[Caller(response.hdr)] = "user"
  /\ reflections[ReqPair].id = 0

\* C10: save draft with non-empty text by a stored user answers 200, sets
\* the row's text and forces its status to draft whatever the status was,
\* so the row is not among the rows the admin's submitted list selects.
C10_DraftForcesStatus ==
  [][(/\ response'.route = "reflection.draft"
      /\ NamesUser(response'.hdr)
      /\ response'.body.json /\ response'.body.has
      /\ response'.body.text # <<>>)
       => (/\ response'.code = 200
           /\ reflections'[ReqPairNext].id # 0
           /\ reflections'[ReqPairNext].text = response'.body.text
           /\ reflections'[ReqPairNext].status = "draft"
           /\ ReqPairNext \notin SubmittedPairs(reflections')
           /\ \A q \in Pairs \ {ReqPairNext} : reflections'[q] = reflections[q])]_vars

\* a row that had been submitted (and never marked) is a draft again
C10_Witness ==
  /\ response.route = "reflection.draft"
  /\ response.code = 200
  /\ reflections[ReqPair].status = "draft"
  /\ reflections[ReqPair].submitted_at # NULL
  /\ reflections[ReqPair].marked_at = NULL

(***************************************************************************)
(* Sprint routes: none of them calls authenticate() or authorizeAdmin()    *)
(***************************************************************************)
Active(sp) == {i \in SprintIds : sp[i].exists /\ sp[i].is_active}

\* parseInt(max_duration_minutes, 10) of a JSON value: an integer is itself, a
\* string is parsed, null and booleans give NaN
parseMinutes(value) ==
  IF value.k = "num" THEN [k |-> "int", v |-> value.v]
  ELSE IF value.k = "str" THEN ParseInt(value.v)
  ELSE [k |-> "nan", v |-> 0]

\* the computation without its upper cap
maxDurationSeconds_NoCap(minutes) ==
  LET secs == parseMinutes(minutes).v * 60
  IN IF parseMinutes(minutes).k = "nan" \/ secs <= 0 THEN 600 ELSE secs

\* let maxDurationSeconds = parseInt(max_duration_minutes, 10) * 60, 600 when
\* that is NaN or <= 0, 3600 when it is more than 3600
maxDurationSeconds(minutes) ==
  LET secs == parseMinutes(minutes).v * 60
  IN IF parseMinutes(minutes).k = "nan" \/ secs <= 0 THEN 600
     ELSE IF secs > 3600 THEN 3600 ELSE secs

SprintReply(route, hdr, code, id) == Reply(route, hdr, code, id, NoText, NoData)

\* POST /api/sprints
CreateSprint(hdr, body) ==
  /\ Idle
  /\ IF ~body.json \/ ~body.complete \/ body.minutes.k = "undefined"
     THEN /\ response' = SprintReply("sprints.create", hdr, 400, 0)
          /\ UNCHANGED <<stored, now, flights, dbQueue, session>>
     ELSE /\ nextSprintId <= MaxSprints
          /\ sprints' = [sprints EXCEPT ![nextSprintId] =
                           [exists |-> TRUE, is_active |-> FALSE,
                            max_duration_seconds |-> maxDurationSeconds(body.minutes)]]
          /\ nextSprintId' = nextSprintId + 1
          /\ response' = SprintReply("sprints.create", hdr, 201, nextSprintId)
          /\ UNCHANGED <<users, reflVars, progress, notes, now, flights, dbQueue, session>>

\* DELETE /api/sprints/:id
DeleteSprint(hdr, id) ==
  /\ Idle
  /\ \A u \in UserIds : ~progress[<<u, id>>].exists
  /\ IF sprints[id].exists
     THEN /\ sprints' = [sprints EXCEPT ![id] = NoSprint]
          /\ response' = SprintReply("sprints.delete", hdr, 204, id)
     ELSE /\ sprints' = sprints
          /\ response' = SprintReply("sprints.delete", hdr, 404, id)
  /\ UNCHANGED <<users, reflVars, progress, notes, now, nextSprintId, flights, dbQueue, session>>

InFlight(r) == flights[r].pc \in {"deactivate", "update"}

\* PUT /api/sprints/:id/active, up to the first query it sends: a body that
\* does not parse is answered 400; shouldActivate sends the deactivate-others
\* query, otherwise updateActiveStatus is called at once
ToggleBegin(r, hdr, id, body) ==
  /\ flights[r].pc = "idle"
  /\ IF ~body.json
     THEN /\ flights' = [flights EXCEPT ![r] =
                           [NoFlight EXCEPT !.pc = "done", !.hdr = hdr, !.id = id,
                                            !.code = 400]]
          /\ dbQueue' = dbQueue
     ELSE /\ flights' =
               [q \in Slots |->
                  IF q = r
                  THEN [pc |-> IF body.shouldActivate THEN "deactivate" ELSE "update",
                        hdr |-> hdr, id |-> id,
                        shouldActivate |-> body.shouldActivate, code |-> 0,
                        overlapped |-> \E o \in Slots \ {r} : InFlight(o),
                        touched |-> {}]
                  ELSE IF InFlight(q) THEN [flights[q] EXCEPT !.overlapped = TRUE]
                  ELSE flights[q]]
          /\ dbQueue' = Append(dbQueue, r)
  /\ UNCHANGED <<users, reflVars, progress, notes, now, response, sprints, nextSprintId, session>>

\* UPDATE sprints SET is_active = 0 WHERE id != ?; its callback calls
\* updateActiveStatus, which sends the second query
DeactivateOthers(r) ==
  /\ dbQueue # <<>> /\ Head(dbQueue) = r
  /\ flights[r].pc = "deactivate"
  /\ sprints' = [i \in SprintIds |->
                   IF i # flights[r].id /\ sprints[i].exists
                   THEN [sprints[i] EXCEPT !.is_active = FALSE]
                   ELSE sprints[i]]
  /\ flights' = [flights EXCEPT ![r].pc = "update",
                                ![r].touched = Active(sprints) \ {flights[r].id}]
  /\ dbQueue' = Append(Tail(dbQueue), r)
  /\ UNCHANGED <<users, reflVars, progress, notes, now, response, nextSprintId, session>>

\* updateActiveStatus: UPDATE sprints SET is_active = ? WHERE id = ?, 404
\* when no row has the id, else 200
updateActiveStatus(r) ==
  /\ dbQueue # <<>> /\ Head(dbQueue) = r
  /\ flights[r].pc = "update"
  /\ IF sprints[flights[r].id].exists
     THEN /\ sprints' = [sprints EXCEPT
                           ![flights[r].id].is_active = flights[r].shouldActivate]
          /\ flights' = [flights EXCEPT
                           ![r].pc = "done", ![r].code = 200,
                           ![r].touched =
                              IF sprints[flights[r].id].is_active = flights[r].shouldActivate
                              THEN @ ELSE @ \cup {flights[r].id}]
     ELSE /\ sprints' = sprints
          /\ flights' = [flights EXCEPT ![r].pc = "done", ![r].code = 404]
  /\ dbQueue' = Tail(dbQueue)
  /\ UNCHANGED <<users, reflVars, progress, notes, now, response, nextSprintId, session>>

\* the response of a toggle request has been sent
ToggleEnd(r) ==
  /\ flights[r].pc = "done"
  /\ flights' = [flights EXCEPT ![r] = NoFlight]
  /\ UNCHANGED <<stored, now, response, dbQueue, session>>

\* requests of the sprint runs
SprintHeaders == {NoHeader, Hdr(<<"1">>), Hdr(<<"2">>)}
SprintBody(complete, minutes) == [json |-> TRUE, complete |-> complete, minutes |-> minutes]
SprintBodies == {SprintBody(FALSE, Num(5)), SprintBody(TRUE, Num(5))}
ToggleBodies ==
  {[json |-> FALSE, shouldActivate |-> FALSE],
   [json |-> TRUE, shouldActivate |-> FALSE],
   [json |-> TRUE, shouldActivate |-> TRUE]}

\* the sprint routes called one request at a time, by every kind of caller
NextSprint ==
  \/ EndResponse
  \/ \E hdr \in SprintHeaders, b \in SprintBodies : CreateSprint(hdr, b)
  \/ \E hdr \in SprintHeaders, id \in SprintIds : DeleteSprint(hdr, id)
  \/ \E hdr \in SprintHeaders, id \in SprintIds, b \in ToggleBodies :
       ToggleBegin(1, hdr, id, b)
  \/ DeactivateOthers(1)
  \/ updateActiveStatus(1)
  \/ ToggleEnd(1)

SpecSprint == Init /\ [][NextSprint]_vars

\* toggle requests of the admin console running at the same time
RaceHeaders == {NoHeader}
NextRace ==
  \/ EndResponse
  \/ \E hdr \in RaceHeaders : CreateSprint(hdr, SprintBody(TRUE, Num(5)))
  \/ \E r \in Slots, hdr \in RaceHeaders, id \in SprintIds, a \in BOOLEAN :
       ToggleBegin(r, hdr, id, [json |-> TRUE, shouldActivate |-> a])
  \/ \E r \in Slots : DeactivateOthers(r)
  \/ \E r \in Slots : updateActiveStatus(r)
  \/ \E r \in Slots : ToggleEnd(r)

SpecRace == Init /\ [][NextRace]_vars

(***************************************************************************)
(* Properties of the sprint routes                                         *)
(***************************************************************************)
\* the header names a stored user whose role is admin
AdminCaller(hdr) ==
  /\ hdr.present
  /\ hdr.text \in {<<"1">>, <<"2">>, <<"3">>}
  /\ users[Caller(hdr)] = "admin"

\* C3: creating, deleting and toggling a sprint take effect only for a
\* caller with the admin role: every change of the sprints table is made by
\* a request whose caller is an admin.
C3_SprintsAdminOnly ==
  [][sprints' # sprints
       => \/ /\ response' # response
             /\ response'.route \in {"sprints.create", "sprints.delete"}
             /\ AdminCaller(response'.hdr)
          \/ \E r \in Slots : flights'[r] # flights[r] /\ AdminCaller(flights[r].hdr)]_vars

\* C6: whenever no toggle request is in progress at most one sprint is
\* active, and a successful activation of sprint B leaves B the only active
\* sprint.
C6_SingleActive ==
  /\ []((\A r \in Slots : ~InFlight(r)) => Cardinality(Active(sprints)) <= 1)
  /\ [][\A r \in Slots :
          (/\ flights[r].pc = "update" /\ flights'[r].pc = "done"
           /\ flights'[r].code = 200 /\ flights[r].shouldActivate)
            => Active(sprints') = {flights[r].id}]_vars

\* C7: when two activation requests for different sprints ran at the same
\* time and both got 200, exactly one sprint is active at the moment the
\* second of them completes.
C7_RaceIsTransient ==
  [][\A r, o \in Slots :
       (/\ r # o
        /\ flights[r].pc = "update" /\ flights'[r].pc = "done"
        /\ flights'[r].code = 200 /\ flights[r].shouldActivate
        /\ flights[r].overlapped
        /\ flights[o].pc = "done" /\ flights[o].code = 200
        /\ flights[o].shouldActivate /\ flights[o].overlapped
        /\ flights[o].id # flights[r].id)
         => Cardinality(Active(sprints')) = 1]_vars

(***************************************************************************)
(* User management routes: neither calls authenticate() or authorizeAdmin()*)
(***************************************************************************)
\* rows of the other tables that belong to user u
OwnsRows(u) ==
  \/ \E l \in LessonIds : HasRow(<<u, l>>)
  \/ \E i \in SprintIds : progress[<<u, i>>].exists
  \/ \E k \in NoteKeys : k[1] = u /\ notes[k].exists

\* DELETE /api/users/:id (for a user that no other table refers to)
DeleteUser(hdr, id) ==
  /\ Idle
  /\ ~OwnsRows(id)
  /\ IF users[id] # "none"
     THEN /\ users' = [users EXCEPT ![id] = "none"]
          /\ response' = SprintReply("users.delete", hdr, 204, id)
     ELSE /\ users' = users
          /\ response' = SprintReply("users.delete", hdr, 404, id)
  /\ UNCHANGED <<reflVars, sprints, nextSprintId, progress, notes, inProgress, now, session>>

\* PUT /api/users/:id/role
UpdateRole(hdr, id, body) ==
  /\ Idle
  /\ IF ~body.json \/ body.newRole \notin {"admin", "user"}
     THEN /\ users' = users
          /\ response' = Reply("users.role", hdr, 400, id, body, NoData)
     ELSE IF users[id] = "none"
     THEN /\ users' = users
          /\ response' = Reply("users.role", hdr, 404, id, body, NoData)
     ELSE /\ users' = [users EXCEPT ![id] = body.newRole]
          /\ response' = Reply("users.role", hdr, 200, id, body, NoData)
  /\ UNCHANGED <<reflVars, sprints, nextSprintId, progress, notes, inProgress, now, session>>

\* requests of the user management runs
UserHeaders == {NoHeader, Hdr(<<"1">>), Hdr(<<"2">>)}
RoleBodies ==
  {[json |-> FALSE, newRole |-> ""], [json |-> TRUE, newRole |-> "admin"],
   [json |-> TRUE, newRole |-> "user"], [json |-> TRUE, newRole |-> "owner"]}

NextUsers ==
  \/ EndResponse
  \/ \E hdr \in UserHeaders, id \in UserIds : DeleteUser(hdr, id)
  \/ \E hdr \in UserHeaders, id \in UserIds, b \in RoleBodies : UpdateRole(hdr, id, b)

SpecUsers == Init /\ [][NextUsers]_vars

\* C4: a user's role is changed and a user is deleted only by a caller with
\* the admin role: every change of the users table is made by a request
\* whose caller is an admin.
C4_UsersAdminOnly ==
  [][users' # users => AdminCaller(response'.hdr)]_vars

(***************************************************************************)
(* Progress routes                                                         *)
(***************************************************************************)
otherThanProgress == <<users, reflVars, sprints, nextSprintId, notes, inProgress, now, session>>

\* GET /api/progress: the caller's rows as {progress, completed}
\* the selection without its WHERE user_id = ?: the rows of every user
GetProgress_AnyUser(hdr) ==
  LET mine == {i \in SprintIds : \E u \in UserIds : progress[<<u, i>>].exists}
      row(i) == progress[<<CHOOSE u \in UserIds : progress[<<u, i>>].exists, i>>]
  IN Idle /\
     IF ~authenticate(hdr) THEN Answer("progress.get", hdr, 401, 0, NoText, NoData)
     ELSE Answer("progress.get", hdr, 200, 0, NoText,
                 [i \in mine |->
                    [progress |-> row(i).progress_percentage,
                     completed |-> row(i).is_completed = 1]])

GetProgress(hdr) ==
  LET userId == Caller(hdr)
      mine == {i \in SprintIds : progress[<<userId, i>>].exists}
  IN Idle /\
     IF ~authenticate(hdr) THEN Answer("progress.get", hdr, 401, 0, NoText, NoData)
     ELSE Answer("progress.get", hdr, 200, 0, NoText,
                 [i \in mine |->
                    [progress |-> progress[<<userId, i>>].progress_percentage,
                     completed |-> progress[<<userId, i>>].is_completed = 1]])

\* a JSON value in a condition: false, 0 and null are falsy
Truthy(x) ==
  IF x.k = "bool" THEN x.v ELSE IF x.k = "num" THEN x.v # 0 ELSE FALSE

\* the upsert as a plain INSERT that a duplicate key turns into a no-op
SaveProgress_InsertIgnore(hdr, body) ==
  LET k == <<Caller(hdr), body.sprint_id>>
      completedStatus == IF Truthy(body.is_completed) THEN 1 ELSE 0
  IN Idle /\
     IF ~authenticate(hdr) THEN Answer("progress.save", hdr, 401, 0, body, NoData)
     ELSE IF ~body.json
       THEN Answer("progress.save", hdr, 400, 0, body, NoData)
     ELSE IF body.sprint_id = 0 \/ body.progress_percentage.k = "undefined"
             \/ body.is_completed.k = "undefined"
       THEN Answer("progress.save", hdr, 400, 0, body, NoData)
     ELSE IF ~progress[k].exists
             /\ ~(users[k[1]] # "none" /\ sprints[k[2]].exists)
       THEN Answer("progress.save", hdr, 400, 0, body, NoData)
     ELSE /\ progress' = IF progress[k].exists THEN progress
                         ELSE [progress EXCEPT ![k] =
                                 [exists |-> TRUE,
                                  progress_percentage |-> body.progress_percentage.v,
                                  is_completed |-> completedStatus]]
          /\ response' = Reply("progress.save", hdr, 200, 0, body, NoData)
          /\ UNCHANGED otherThanProgress

\* POST or PUT /api/progress
SaveProgress(hdr, body) ==
  LET k == <<Caller(hdr), body.sprint_id>>
      completedStatus == IF Truthy(body.is_completed) THEN 1 ELSE 0
  IN Idle /\
     IF ~authenticate(hdr) THEN Answer("progress.save", hdr, 401, 0, body, NoData)
     ELSE IF ~body.json
       THEN Answer("progress.save", hdr, 400, 0, body, NoData)
     ELSE IF body.sprint_id = 0 \/ body.progress_percentage.k = "undefined"
             \/ body.is_completed.k = "undefined"
       THEN Answer("progress.save", hdr, 400, 0, body, NoData)
     ELSE IF ~progress[k].exists
             /\ ~(users[k[1]] # "none" /\ sprints[k[2]].exists)
       THEN Answer("progress.save", hdr, 400, 0, body, NoData)
     ELSE /\ progress' = [progress EXCEPT ![k] =
                            [exists |-> TRUE,
                             progress_percentage |-> body.progress_percentage.v,
                             is_completed |-> completedStatus]]
          /\ response' = Reply("progress.save", hdr, 200, 0, body, NoData)
          /\ UNCHANGED otherThanProgress

(***************************************************************************)
(* Notes routes                                                            *)
(***************************************************************************)
otherThanNotes == <<users, reflVars, sprints, nextSprintId, progress, inProgress, now, session>>

\* String.prototype.toLowerCase on the letters A-Z
UpperCase == <<"A", "B", "C", "D", "E", "F", "G", "H", "I", "J", "K", "L", "M",
               "N", "O", "P", "Q", "R", "S", "T", "U", "V", "W", "X", "Y", "Z">>
LowerCase == <<"a", "b", "c", "d", "e", "f", "g", "h", "i", "j", "k", "l", "m",
               "n", "o", "p", "q", "r", "s", "t", "u", "v", "w", "x", "y", "z">>
toLowerCase(s) ==
  [i \in DOMAIN s |->
     IF \E j \in DOMAIN UpperCase : UpperCase[j] = s[i]
     THEN LowerCase[CHOOSE j \in DOMAIN UpperCase : UpperCase[j] = s[i]]
     ELSE s[i]]

\* GET /api/notes/:contentType/:contentId; the path segments are taken from
\* pathUrl, which is the request path in lower case
GetNote(hdr, contentType, contentId) ==
  LET k == <<Caller(hdr), toLowerCase(contentType), contentId>>
      body == [json |-> TRUE, contentType |-> contentType, contentId |-> Num(contentId),
               noteText |-> [k |-> "undefined", v |-> <<>>]]
  IN Idle /\
     IF ~authenticate(hdr) THEN Answer("notes.get", hdr, 401, 0, body, NoData)
     ELSE Answer("notes.get", hdr, 200, 0, body,
                 IF notes[k].exists THEN notes[k].note_text ELSE <<>>)

\* POST or PUT /api/notes
SaveNote(hdr, body) ==
  LET k == <<Caller(hdr), body.contentType, body.contentId.v>>
  IN Idle /\
     IF ~authenticate(hdr) THEN Answer("notes.save", hdr, 401, 0, body, NoData)
     ELSE IF ~body.json
       THEN Answer("notes.save", hdr, 400, 0, body, NoData)
     ELSE IF body.contentType = <<>> \/ body.contentId.k = "undefined"
             \/ body.noteText.k = "undefined"
       THEN Answer("notes.save", hdr, 400, 0, body, NoData)
     ELSE IF ~notes[k].exists /\ users[k[1]] = "none"
       THEN Answer("notes.save", hdr, 500, 0, body, NoData)
     ELSE /\ notes' = [notes EXCEPT ![k] =
                         [exists |-> TRUE, note_text |-> body.noteText.v]]
          /\ response' = Reply("notes.save", hdr, 200, 0, body, NoData)
          /\ UNCHANGED otherThanNotes

(***************************************************************************)
(* Every route that calls authenticate(), under every X-User-Id value      *)
(***************************************************************************)
Undefined == [k |-> "undefined", v |-> 0]
ProgressBody(sid, pct, done) ==
  [json |-> TRUE, sprint_id |-> sid, progress_percentage |-> pct, is_completed |-> done]
AuthProgressBodies ==
  {ProgressBody(1, Undefined, [k |-> "bool", v |-> FALSE]),
   ProgressBody(1, Num(50), [k |-> "bool", v |-> FALSE])}
NoteBody(type, id, text) ==
  [json |-> TRUE, contentType |-> type, contentId |-> id, noteText |-> text]
AuthNoteBodies ==
  {NoteBody(<<>>, Num(1), [k |-> "str", v |-> <<"n">>]),
   NoteBody(<<"n">>, Num(1), [k |-> "str", v |-> <<"n">>])}
AuthTextBodies == {NoText, Text(<<" ", "x">>)}
AuthMarkBodies ==
  {MarkBody(0, Num(7), <<"g">>, "marked"), MarkBody(1, Num(7), <<"g">>, "marked")}

NextAuth ==
  \/ EndResponse
  \/ CreateSprint(NoHeader, SprintBody(TRUE, Num(5)))
  \/ \E hdr \in Headers : GetProgress(hdr)
  \/ \E hdr \in Headers, b \in AuthProgressBodies : SaveProgress(hdr, b)
  \/ \E hdr \in Headers : GetNote(hdr, <<"n">>, 1)
  \/ \E hdr \in Headers, b \in AuthNoteBodies : SaveNote(hdr, b)
  \/ \E hdr \in Headers : GetReflection(hdr, 1)
  \/ \E hdr \in Headers, b \in AuthTextBodies : SaveDraft(hdr, 1, b)
  \/ \E hdr \in Headers, b \in AuthTextBodies : Submit(hdr, 1, b)
  \/ \E hdr \in Headers, b \in AuthTextBodies : Resubmit(hdr, 1, b)
  \/ \E hdr \in Headers : ListSubmitted(hdr)
  \/ \E hdr \in Headers, b \in AuthMarkBodies : Mark(hdr, b)

SpecAuth == Init /\ [][NextAuth]_vars

AuthRoutes ==
  {"progress.get", "progress.save", "notes.get", "notes.save", "reflection.get",
   "reflection.draft", "reflection.submit", "reflection.resubmit",
   "reflections.submitted", "reflections.mark"}

\* the header text is a decimal integer: an optional sign and digits only
Numeric(s) ==
  LET digits == IF s # <<>> /\ s[1] \in {"-", "+"} THEN Tail(s) ELSE s
  IN digits # <<>> /\ \A i \in DOMAIN digits : IsDigit(digits[i])

\* a numeric header text whose value is positive
Positive(s) ==
  /\ s[1] # "-"
  /\ \E i \in DOMAIN s : IsDigit(s[i]) /\ s[i] # "0"

\* C5: on every authenticated endpoint a request whose X-User-Id header is
\* absent, non-numeric or <= 0 is answered 401 and no table changes, whatever
\* its body and before the admin check.
C5_InvalidHeader401 ==
  [][(/\ response'.route \in AuthRoutes
      /\ (\/ ~response'.hdr.present
          \/ ~Numeric(response'.hdr.text)
          \/ ~Positive(response'.hdr.text)))
       => (response'.code = 401 /\ UNCHANGED stored)]_vars

(***************************************************************************)
(* Marking: every shape of the mark request, sent by the admin             *)
(***************************************************************************)
\* score: null in the JSON body
Null == [k |-> "null", v |-> 0]

\* the mark requests that name a reflection id, a score at either end of
\* 0..10, a feedback and a final status
GoodMarks ==
  {MarkBody(rid, sc, <<"g">>, st) :
     rid \in 1..2, sc \in {Num(0), Num(10)}, st \in {"marked", "rejected"}}

\* the same with one field off: reflection_id missing; score missing, null,
\* below 0, above 10; admin_feedback missing or empty; status submitted
BadMarks ==
  {MarkBody(0, Num(10), <<"g">>, "marked"),
   MarkBody(1, Undefined, <<"g">>, "marked"),
   MarkBody(1, Null, <<"g">>, "marked"),
   MarkBody(1, Num(0 - 1), <<"g">>, "marked"),
   MarkBody(1, Num(11), <<"g">>, "marked"),
   MarkBody(1, Num(10), <<>>, "marked"),
   MarkBody(1, Num(10), <<"g">>, "submitted")}

MarkShapes == GoodMarks \cup BadMarks

\* the owners of the reflections that get marked
Owners == {Hdr(<<"1">>), Hdr(<<"2">>)}

NextMark ==
  \/ Tick
  \/ EndResponse
  \/ \E hdr \in Owners : GetReflection(hdr, 1)
  \/ \E hdr \in Owners : SaveDraft(hdr, 1, Text(<<"x">>))
  \/ \E hdr \in Owners : Submit(hdr, 1, Text(<<"x">>))
  \/ \E b \in MarkShapes : Mark(Hdr(<<"1">>), b)

SpecMark == Init /\ [][NextMark]_vars

\* the mark request passes the validation the specification asks for
WellFormedMark(body) ==
  /\ body.json
  /\ body.reflection_id # 0
  /\ body.score.k = "num" /\ body.score.v \in 0..10
  /\ body.admin_feedback # <<>>
  /\ body.status \in {"marked", "rejected"}

\* C11: a well-formed mark by an admin of an existing reflection answers 200
\* and sets that row's score, admin_feedback and status and marked_at = NOW(),
\* leaving its other columns and every other row as they were; for an id no
\* row has it answers 404 and no reflection changes; a GET by the owner
\* returns the stored row.
C11_MarkSetsRow ==
  /\ [][(/\ response'.route = "reflections.mark"
         /\ AdminCaller(response'.hdr)
         /\ WellFormedMark(response'.body))
          => LET b == response'.body
                 hit == {p \in Pairs : reflections[p].id = b.reflection_id}
             IN IF hit = {}
                THEN response'.code = 404 /\ reflections' = reflections
                ELSE /\ response'.code = 200
                     /\ Cardinality(hit) = 1
                     /\ \A p \in hit :
                          reflections'[p] =
                            [reflections[p] EXCEPT
                               !.score = b.score.v,
                               !.admin_feedback = b.admin_feedback,
                               !.status = b.status,
                               !.marked_at = now]
                     /\ \A q \in Pairs \ hit : reflections'[q] = reflections[q]]_vars
  /\ []((/\ response.route = "reflection.get" /\ response.code = 200
         /\ reflections[ReqPair].id # 0)
          => response.data = reflections[ReqPair])

\* the owner reads back a reflection rejected with score 0 while the other
\* user's reflection is still waiting
C11_Witness ==
  /\ response.route = "reflection.get"
  /\ response.code = 200
  /\ Caller(response.hdr) = 2
  /\ response.data.status = "rejected"
  /\ response.data.score = 0
  /\ response.data.admin_feedback = <<"g">>
  /\ response.data.marked_at = now
  /\ reflections[<<1, 1>>].status = "submitted"

\* C12: a mark request of an admin is answered 400 and changes no reflection
\* when reflection_id, score or admin_feedback is missing or empty, when score
\* is not a number within 0..10, or when status is neither marked nor rejected.
C12_MarkValidation ==
  [][(/\ response'.route = "reflections.mark"
      /\ AdminCaller(response'.hdr)
      /\ ~WellFormedMark(response'.body))
       => (response'.code = 400 /\ reflections' = reflections)]_vars

(***************************************************************************)
(* The admin's list of submitted reflections                               *)
(***************************************************************************)
\* the row that has reflection id rid
RowOf(rid) == CHOOSE p \in Pairs : reflections[p].id = rid

\* C13: GET /api/reflections/submitted by an admin returns each reflection
\* whose status is submitted once and no other, in ascending submitted_at: a
\* marked reflection is not listed, and a reflection submitted again stands
\* behind every listed reflection with an earlier submitted_at.
C13_SubmittedList ==
  (response.route = "reflections.submitted" /\ response.code = 200)
    => LET s == response.data
       IN /\ {s[i] : i \in DOMAIN s}
               = {reflections[p].id : p \in {q \in Pairs : reflections[q].status = "submitted"}}
          /\ \A i, j \in DOMAIN s : i # j => s[i] # s[j]
          /\ \A i, j \in DOMAIN s :
               reflections[RowOf(s[i])].submitted_at < reflections[RowOf(s[j])].submitted_at
                 => i < j

\* the list holds a reflection submitted again after it was marked, behind
\* a reflection that was created later but submitted earlier
C13_Witness ==
  /\ response.route = "reflections.submitted"
  /\ response.code = 200
  /\ Len(response.data) = 2
  /\ reflections[RowOf(response.data[1])].submitted_at = 0
  /\ reflections[RowOf(response.data[2])].submitted_at = 1
  /\ reflections[RowOf(response.data[2])].marked_at # NULL
  /\ response.data[2] < response.data[1]

(***************************************************************************)
(* Required text of the reflection writes                                  *)
(***************************************************************************)
\* C14: save draft, submit and resubmit by an authenticated caller whose
\* body has no reflection_text or an empty one are answered 400 and store
\* nothing; submit and resubmit treat text of white space only the same way,
\* and an existing row keeps its text, status and submitted_at.
C14_EmptyText400 ==
  [][(/\ response'.route \in {"reflection.draft", "reflection.submit", "reflection.resubmit"}
      /\ authenticate(response'.hdr)
      /\ response'.body.json
      /\ \/ ~response'.body.has
         \/ response'.body.text = <<>>
         \/ /\ response'.route # "reflection.draft"
            /\ ~NonBlank(response'.body.text))
       => (/\ response'.code = 400
           /\ reflections' = reflections
           /\ nextReflId' = nextReflId)]_vars

\* a resubmit of a single space was refused and the marked row is as it was
C14_Witness ==
  /\ response.route = "reflection.resubmit"
  /\ response.code = 400
  /\ response.body.text = <<" ">>
  /\ reflections[ReqPair].status = "marked"
  /\ reflections[ReqPair].text = <<" ", "x">>

(***************************************************************************)
(* Reading a reflection                                                    *)
(***************************************************************************)
\* C15: GET of a reflection by an authenticated caller answers 200; for a
\* pair with no row it returns status draft, empty text and null score,
\* feedback, submitted_at and marked_at; for a pair with a row it returns
\* the stored text and status.
C15_GetDefaultsToDraft ==
  (response.route = "reflection.get" /\ authenticate(response.hdr))
    => /\ response.code = 200
       /\ IF reflections[ReqPair].id = 0
          THEN /\ response.data.status = "draft"
               /\ response.data.text = <<>>
               /\ response.data.score = NULL
               /\ response.data.admin_feedback = <<>>
               /\ response.data.submitted_at = NULL
               /\ response.data.marked_at = NULL
          ELSE /\ response.data.text = reflections[ReqPair].text
               /\ response.data.status = reflections[ReqPair].status

\* a user with no reflection reads the default while the admin's own
\* reflection for the same lesson is stored as submitted
C15_Witness ==
  /\ response.route = "reflection.get"
  /\ response.code = 200
  /\ Caller(response.hdr) = 2
  /\ reflections[<<2, 1>>].id = 0
  /\ reflections[<<1, 1>>].status = "submitted"
  /\ response.data.status = "draft"

(***************************************************************************)
(* Sprint progress: the player's saveProgress and direct API calls         *)
(***************************************************************************)
Min(a, b) == IF a < b THEN a ELSE b
Max(a, b) == IF a > b THEN a ELSE b

\* the payload without the clamp
saveProgress_NoClamp(sprint, percent) ==
  ProgressBody(sprint, Num(percent), Num(IF percent >= 100 THEN 1 ELSE 0))

\* saveProgress of the sprint player: progressPercentage =
\* Math.min(100, Math.max(0, percent)), isCompleted = progressPercentage >= 100,
\* sent as {sprint_id, progress_percentage, is_completed: isCompleted ? 1 : 0}
saveProgress(sprint, percent) ==
  LET progressPercentage == Min(100, Max(0, percent))
      isCompleted == progressPercentage >= 100
  IN ProgressBody(sprint, Num(progressPercentage), Num(IF isCompleted THEN 1 ELSE 0))

\* sprint ids of the progress requests: 2 has no row until a second sprint
\* is created
ProgressSprints == {1, 2}
\* playback positions the player reports
Percents == {0 - 5, 50, 100, 150}
\* bodies of requests sent to the API directly
Bool(b) == [k |-> "bool", v |-> b]
RawProgressBodies ==
  {ProgressBody(sid, Num(pct), Bool(done)) :
     sid \in ProgressSprints, pct \in {50, 150}, done \in BOOLEAN}

NextProgress ==
  \/ EndResponse
  \/ CreateSprint(NoHeader, SprintBody(TRUE, Num(5)))
  \/ \E hdr \in Owners : GetProgress(hdr)
  \/ \E hdr \in Owners, sid \in ProgressSprints, pct \in Percents :
       SaveProgress(hdr, saveProgress(sid, pct))
  \/ \E hdr \in Owners, b \in RawProgressBodies : SaveProgress(hdr, b)

SpecProgress == Init /\ [][NextProgress]_vars

\* the key and the row a progress request names
ReqProgressKey == <<Caller(response'.hdr), response'.body.sprint_id>>
GivenRow ==
  [exists |-> TRUE,
   progress_percentage |-> response'.body.progress_percentage.v,
   is_completed |-> IF Truthy(response'.body.is_completed) THEN 1 ELSE 0]

\* C16: an accepted progress save leaves the pair's one row holding the
\* values of that save and every other row as it was: the same payload
\* again changes nothing, a different percentage replaces the earlier one.
C16_LastWriteWins ==
  [][(response'.route = "progress.save" /\ response'.code = 200)
       => /\ progress' = [progress EXCEPT ![ReqProgressKey] = GivenRow]
          /\ progress[ReqProgressKey] = GivenRow => progress' = progress]_vars

\* both users have a row for sprint 1; the last save was user 2's
C16_Witness ==
  /\ response.route = "progress.save"
  /\ response.code = 200
  /\ Caller(response.hdr) = 2
  /\ response.body.sprint_id = 1
  /\ progress[<<2, 1>>].progress_percentage = 100
  /\ progress[<<1, 1>>].exists
  /\ progress[<<1, 1>>].progress_percentage = 50

\* C17 as stated: every stored progress row has progress_percentage within
\* 0..100 and is_completed true exactly when progress_percentage >= 100.
C17_StoredInRange ==
  \A k \in ProgressKeys :
    progress[k].exists
      => /\ progress[k].progress_percentage \in 0..100
         /\ progress[k].is_completed = 1 <=> progress[k].progress_percentage >= 100

\* C17 amended: an accepted progress save stores progress_percentage and
\* is_completed as the request gives them; when the request is the payload
\* of the player's saveProgress the stored percentage is within 0..100 and
\* is_completed is true exactly when it is >= 100.
C17_StoredAsGiven ==
  [][(response'.route = "progress.save" /\ response'.code = 200)
       => /\ progress'[ReqProgressKey] = GivenRow
          /\ (\E sid \in ProgressSprints, pct \in Percents :
                response'.body = saveProgress(sid, pct))
               => /\ progress'[ReqProgressKey].progress_percentage \in 0..100
                  /\ progress'[ReqProgressKey].is_completed = 1
                       <=> progress'[ReqProgressKey].progress_percentage >= 100]_vars

\* the player reported a position past the end and the row holds 100, completed
C17_Witness ==
  /\ response.route = "progress.save"
  /\ response.code = 200
  /\ response.body = saveProgress(1, 150)
  /\ progress[<<2, 1>>].progress_percentage = 100
  /\ progress[<<2, 1>>].is_completed = 1
  /\ Caller(response.hdr) = 2

(***************************************************************************)
(* Notes: save and read back                                               *)
(***************************************************************************)
Str(s) == [k |-> "str", v |-> s]
\* note requests: both content types, contentId 0 and 1, noteText "" and "a"
NoteBodies ==
  {NoteBody(type, Num(id), Str(text)) :
     type \in ContentTypes, id \in ContentIds, text \in {<<>>, <<"a">>}}

NextNotes ==
  \/ EndResponse
  \/ \E hdr \in Owners, b \in NoteBodies : SaveNote(hdr, b)
  \/ \E hdr \in Owners, type \in ContentTypes, id \in ContentIds : GetNote(hdr, type, id)

SpecNotes == Init /\ [][NextNotes]_vars

\* the triple a notes request names, as the caller wrote it
ReqNoteKey == <<Caller(response.hdr), response.body.contentType, response.body.contentId.v>>

C20_ForeignKey400 ==
  [][(/\ response'.route \in {"progress.save", "notes.save", "reflection.draft",
                               "reflection.submit"}
      /\ authenticate(response'.hdr)
      /\ \/ users[Caller(response'.hdr)] = "none"
         \/ /\ response'.route = "progress.save"
            /\ ~sprints[response'.body.sprint_id].exists)
       => (response'.code = 400 /\ UNCHANGED stored)]_vars

(***************************************************************************)
(* GET /uploads/*: the static file handler                                 *)
(***************************************************************************)
\* size in bytes of the video under the uploads directory
MaxFileSize == 3

\* path.resolve(): the directory the server is started in
WorkDir == <<"srv", "backend">>
\* const UPLOADS_DIR = path.join(path.resolve(), 'uploads')
UPLOADS_DIR == WorkDir \o <<"uploads">>

\* the files on disk: the video under uploads/ and the server's db.js
VideoFile == UPLOADS_DIR \o <<"v.mp4">>
DbFile == WorkDir \o <<"db.js">>
DiskFiles == {VideoFile, DbFile}
Content(file) ==
  IF file = VideoFile THEN [i \in 1..MaxFileSize |-> i] ELSE <<"d", "b">>

IsPrefix(a, b) == Len(a) <= Len(b) /\ SubSeq(b, 1, Len(a)) = a
\* fs.stat succeeds on files and on directories
IsDirectory(p) == \E f \in DiskFiles : IsPrefix(p, f) /\ p # f
Exists(p) == p \in DiskFiles \/ IsDirectory(p)

\* path.join normalises its result: "." and empty segments are dropped and
\* ".." removes the segment before it
RECURSIVE Normalize(_, _)
Normalize(segs, acc) ==
  IF segs = <<>> THEN acc
  ELSE IF Head(segs) = ".."
    THEN Normalize(Tail(segs), IF acc = <<>> THEN acc ELSE SubSeq(acc, 1, Len(acc) - 1))
  ELSE IF Head(segs) \in {".", ""} THEN Normalize(Tail(segs), acc)
  ELSE Normalize(Tail(segs), Append(acc, Head(segs)))

\* the join that keeps ".." segments from leaving the first directory
Join_Confined(dir, segs) == dir \o Normalize(segs, <<>>)

\* path.join(dir, segs.join('/'))
Join(dir, segs) == Normalize(dir \o segs, <<>>)

\* range.replace(/bytes=/, ""): the first "bytes=" is removed; the header is
\* a sequence of tokens, "bytes=" being one token
RECURSIVE StripUnit(_)
StripUnit(range) ==
  IF range = <<>> THEN <<>>
  ELSE IF Head(range) = "bytes=" THEN Tail(range)
  ELSE <<Head(range)>> \o StripUnit(Tail(range))

\* String.prototype.split("-")
RECURSIVE Split(_, _)
Split(text, part) ==
  IF text = <<>> THEN <<part>>
  ELSE IF Head(text) = "-" THEN <<part>> \o Split(Tail(text), <<>>)
  ELSE Split(Tail(text), Append(part, Head(text)))

NaN == [k |-> "nan", v |-> 0]
IntVal(n) == [k |-> "int", v |-> n]
\* (end - start) + 1
ChunkSize(start, end) ==
  IF start.k = "nan" \/ end.k = "nan" THEN NaN ELSE IntVal((end.v - start.v) + 1)

\* fs.createReadStream(file, {start, end}) throws when start or end is not
\* an integer or start > end
StreamThrows(start, end) ==
  start.k = "nan" \/ end.k = "nan" \/ start.v > end.v

\* the stream with an exclusive end
ReadRange_EndExclusive(file, start, end) ==
  LET bytes == Content(file)
      last == IF end.v - 1 < Len(bytes) - 1 THEN end.v - 1 ELSE Len(bytes) - 1
  IN IF StreamThrows(start, end) THEN <<>> ELSE SubSeq(bytes, start.v + 1, last + 1)

\* the bytes the stream delivers: start..end inclusive, cut at the end of
\* the file
ReadRange(file, start, end) ==
  LET bytes == Content(file)
      last == IF end.v < Len(bytes) - 1 THEN end.v ELSE Len(bytes) - 1
  IN IF StreamThrows(start, end) THEN <<>> ELSE SubSeq(bytes, start.v + 1, last + 1)

NoRange == [present |-> FALSE, text |-> <<>>]
UploadRequest(segs, range) == [json |-> TRUE, path |-> segs, range |-> range]
NoContentRange == [start |-> NaN, end |-> NaN, total |-> 0]

UploadReply(code, req, data) == Reply("uploads", NoHeader, code, 0, req, data)

\* GET /uploads/<segs>, with or without a Range header
Upload(segs, range) ==
  LET absoluteFilePath == Join(UPLOADS_DIR, segs)
      req == UploadRequest(segs, range)
      totalSize == IF absoluteFilePath \in DiskFiles THEN Len(Content(absoluteFilePath)) ELSE 0
      mimeType == IF absoluteFilePath # <<>> /\ absoluteFilePath[Len(absoluteFilePath)] = "v.mp4"
                  THEN "video/mp4" ELSE "application/octet-stream"
      parts == Split(StripUnit(range.text), <<>>)
      start == ParseInt(parts[1])
      end == IF Len(parts) >= 2 /\ parts[2] # <<>> THEN ParseInt(parts[2])
             ELSE IntVal(totalSize - 1)
      isFile == absoluteFilePath \in DiskFiles
  IN /\ Idle
     /\ UNCHANGED <<stored, inProgress, now, session>>
     /\ response' =
          IF ~Exists(absoluteFilePath)
          THEN UploadReply(404, req,
                 [contentType |-> "text/plain", json |-> FALSE, text |-> "File Not Found",
                  file |-> <<>>, sent |-> <<>>, threw |-> FALSE,
                  contentRange |-> NoContentRange, acceptRanges |-> "",
                  contentLength |-> NaN])
          ELSE IF range.present /\ range.text # <<>>
          THEN UploadReply(206, req,
                 [contentType |-> mimeType, json |-> FALSE, text |-> "",
                  file |-> IF isFile /\ ~StreamThrows(start, end) THEN absoluteFilePath ELSE <<>>,
                  sent |-> IF isFile THEN ReadRange(absoluteFilePath, start, end) ELSE <<>>,
                  threw |-> ~isFile \/ StreamThrows(start, end),
                  contentRange |-> [start |-> start, end |-> end, total |-> totalSize],
                  acceptRanges |-> "bytes",
                  contentLength |-> ChunkSize(start, end)])
          ELSE UploadReply(200, req,
                 [contentType |-> mimeType, json |-> FALSE, text |-> "",
                  file |-> IF isFile THEN absoluteFilePath ELSE <<>>,
                  sent |-> IF isFile THEN Content(absoluteFilePath) ELSE <<>>,
                  threw |-> ~isFile,
                  contentRange |-> NoContentRange, acceptRanges |-> "",
                  contentLength |-> IntVal(totalSize)])

\* requests of the uploads runs: one or two path segments after /uploads
UploadSegments == {"v.mp4", "..", "db.js", "nope"}
UploadPaths ==
  {<<a>> : a \in UploadSegments} \cup {<<a, b>> : a, b \in UploadSegments}

\* "0".."9" for a number below ten
DigitChar(n) == <<"0", "1", "2", "3", "4", "5", "6", "7", "8", "9">>[n + 1]
\* Range: bytes=s-e and Range: bytes=s-
RangeOf(s, e) == [present |-> TRUE, text |-> <<"bytes=", DigitChar(s), "-", DigitChar(e)>>]
RangeFrom(s) == [present |-> TRUE, text |-> <<"bytes=", DigitChar(s), "-">>]
\* positions up to two past the end of the video
Positions == 0..(MaxFileSize + 1)
\* Range header values: none, empty, s-e and s- for every position, the
\* suffix form -2, non-numeric bounds
Ranges ==
  {NoRange, [present |-> TRUE, text |-> <<>>]}
    \cup {RangeOf(s, e) : s, e \in Positions}
    \cup {RangeFrom(s) : s \in Positions}
    \cup {[present |-> TRUE, text |-> <<"bytes=", "-", "2">>],
          [present |-> TRUE, text |-> <<"bytes=", "a", "-", "b">>]}

NextUploads ==
  \/ EndResponse
  \/ \E segs \in UploadPaths, range \in Ranges : Upload(segs, range)

SpecUploads == Init /\ [][NextUploads]_vars

C22_NoTraversal ==
  (response.route = "uploads" /\ response.data.file # <<>>)
    => IsPrefix(UPLOADS_DIR, response.data.file)

\* C30: every 206 response of the uploads handler has
\* 0 <= start <= end < file size in its Content-Range and a Content-Length
\* equal to the number of body bytes sent, for every Range header value.
C30_RangeSane ==
  (/\ response.route = "uploads" /\ response.code = 206
   /\ Join(UPLOADS_DIR, response.body.path) \in DiskFiles)
    => LET cr == response.data.contentRange
       IN /\ cr.start.k = "int" /\ cr.end.k = "int"
          /\ 0 <= cr.start.v /\ cr.start.v <= cr.end.v /\ cr.end.v < cr.total
          /\ response.data.contentLength = IntVal(Len(response.data.sent))

\* C23: every response of the uploads handler whose status is not 2xx has a
\* JSON body of the shape {error: string}.
C23_ErrorsAreJson ==
  (response.route = "uploads" /\ response.code \notin 200..299)
    => (response.data.json /\ response.data.contentType = "application/json")

(***************************************************************************)
(* Sprint creation: the stored duration                                    *)
(***************************************************************************)
\* max_duration_minutes values: missing, null, negative, zero, small, at
\* and past the cap, very large, and strings "abc", "2x", "-3"
DurationValues ==
  {Undefined, Null, Num(0 - 1), Num(0), Num(1), Num(59), Num(60), Num(61),
   Num(100000), [k |-> "str", v |-> <<"a", "b", "c">>],
   [k |-> "str", v |-> <<"2", "x">>], [k |-> "str", v |-> <<"-", "3">>]}

NextDuration ==
  \/ EndResponse
  \/ \E m \in DurationValues : CreateSprint(NoHeader, SprintBody(TRUE, m))
  \/ \E id \in SprintIds : DeleteSprint(NoHeader, id)

SpecDuration == Init /\ [][NextDuration]_vars

\* C24: every stored sprint has max_duration_seconds within 1..3600, and a
\* sprint created with any max_duration_minutes that is present is answered
\* 201 and stored inactive.
C24_DurationBounded ==
  /\ [](\A i \in SprintIds :
          sprints[i].exists => sprints[i].max_duration_seconds \in 1..3600)
  /\ [][(/\ response'.route = "sprints.create"
         /\ nextSprintId' # nextSprintId)
          => /\ response'.code = 201
             /\ sprints'[nextSprintId].exists
             /\ ~sprints'[nextSprintId].is_active
             /\ sprints'[nextSprintId].max_duration_seconds \in 1..3600]_vars

\* sprints were stored with the default (600, from a non-numeric value) and
\* with the cap (3600, from a very large one)
C24_Witness ==
  /\ sprints[1].exists /\ sprints[1].max_duration_seconds = 600
  /\ sprints[2].exists /\ sprints[2].max_duration_seconds = 3600
  /\ response.route = "sprints.create"
  /\ response.code = 201

(***************************************************************************)
(* The browser: login, logout and the X-User-Id the pages send             *)
(***************************************************************************)
\* users.name of the two stored users
NameOf(u) == IF u = 1 THEN <<"A">> ELSE <<"B">>

\* String(n) of a number
RECURSIVE Digits(_)
Digits(n) ==
  IF n < 10 THEN <<DigitChar(n)>> ELSE Digits(n \div 10) \o <<DigitChar(n % 10)>>
NumberText(x) ==
  IF x.k = "nan" THEN <<"N", "a", "N">>
  ELSE IF x.v < 0 THEN <<"-">> \o Digits(0 - x.v) ELSE Digits(x.v)

\* POST /login: 400 for an unknown email, 401 for a wrong password, else 200
\* with the user row without its password
loginResponse(u, passwordOk) ==
  IF users[u] = "none" THEN [code |-> 400, user |-> [id |-> 0, name |-> <<>>]]
  ELSE IF ~passwordOk THEN [code |-> 401, user |-> [id |-> 0, name |-> <<>>]]
  ELSE [code |-> 200, user |-> [id |-> u, name |-> NameOf(u)]]

\* handleLogin of the login page and the effect of its SuccessModal: on 200
\* the user's name is put in sessionStorage under "userName"; nothing else
\* of the user is stored
handleLogin(u, passwordOk) ==
  LET res == loginResponse(u, passwordOk)
  IN /\ Idle
     /\ response' = Reply("login", NoHeader, res.code, 0, NoText, res.user)
     /\ session' = IF res.code = 200
                   THEN [session EXCEPT !.userName = Item(res.user.name)]
                   ELSE session
     /\ UNCHANGED <<stored, inProgress, now>>

\* handleLogout: sessionStorage.clear()
handleLogout ==
  /\ Idle
  /\ session # NoSession
  /\ session' = NoSession
  /\ UNCHANGED <<stored, inProgress, now, response>>

\* getUserId of the dashboard and notes pages:
\* parseInt(sessionStorage.getItem("userId") || "9", 10)
getUserId_Dashboard ==
  ParseInt(IF session.userId.has /\ session.userId.text # <<>>
           THEN session.userId.text ELSE <<"9">>)
\* getUserId of the lessons page: the same with "1"
getUserId_Lessons ==
  ParseInt(IF session.userId.has /\ session.userId.text # <<>>
           THEN session.userId.text ELSE <<"1">>)
\* getUserId of the sprint player: the stored id when it parses to a
\* positive number, else 9
getUserId_Sprints ==
  LET userId == IF session.userId.has THEN ParseInt(session.userId.text)
                ELSE [k |-> "nan", v |-> 0]
  IN IF userId.k = "int" /\ userId.v > 0 THEN userId ELSE [k |-> "int", v |-> 9]

\* getAuthHeaders: {'X-User-Id': getUserId()}
getAuthHeaders(userId) == Hdr(NumberText(userId))

NextClient ==
  \/ EndResponse
  \/ \E u \in {1, 2, 3}, ok \in BOOLEAN : handleLogin(u, ok)
  \/ handleLogout
  \/ GetNote(getAuthHeaders(getUserId_Dashboard), <<"n">>, 0)
  \/ SaveNote(getAuthHeaders(getUserId_Dashboard), NoteBody(<<"n">>, Num(0), Str(<<"a">>)))
  \/ GetReflection(getAuthHeaders(getUserId_Lessons), 1)
  \/ \E b \in {Text(<<"x">>), Text(<<"y">>)} :
       SaveDraft(getAuthHeaders(getUserId_Lessons), 1, b)
  \/ \E b \in {Text(<<"x">>), Text(<<"y">>)} :
       Submit(getAuthHeaders(getUserId_Lessons), 1, b)
  \/ CreateSprint(NoHeader, SprintBody(TRUE, Num(5)))
  \/ GetProgress(getAuthHeaders(getUserId_Sprints))
  \/ \E pct \in Percents : SaveProgress(getAuthHeaders(getUserId_Sprints), saveProgress(1, pct))

SpecClient == Init /\ [][NextClient]_vars

\* C25: while a user is logged in, every API call of the pages carries that
\* user's id in X-User-Id, and a logout leaves nothing in sessionStorage.
C25_ClientSendsLoggedInId ==
  /\ [][(response'.route \in AuthRoutes /\ session.userName.has)
          => \E u \in {1, 2} :
               /\ session.userName.text = NameOf(u)
               /\ Caller(response'.hdr) = u]_vars
  /\ [][(session' # session /\ response' = response) => session' = NoSession]_vars

(***************************************************************************)
(* GET /api/users/:id/stats and the number of responses a request gets     *)
(***************************************************************************)
\* the sendResponse call authenticate() makes itself when it fails
authenticateSends(hdr) == IF authenticate(hdr) THEN <<>> ELSE <<401>>

\* requestedUserId !== userId (NaN differs from everything, itself included)
SameUser(requested, userId) ==
  requested.k = "int" /\ userId.k = "int" /\ requested.v = userId.v

\* the sendResponse calls of one stats request, in order: authenticate() is
\* called inside the condition, and the 403 follows whenever it is false
statsSends(hdr, segment) ==
  LET requestedUserId == ParseInt(segment)
      userId == UserIdOf(hdr)
      checked == authenticateSends(hdr)
  IN IF ~authenticate(hdr) \/ ~SameUser(requestedUserId, userId)
     THEN checked \o <<403>>
     ELSE IF users[requestedUserId.v] = "none" THEN checked \o <<404>>
     ELSE checked \o <<200>>

\* the counts of the stats row that come from modelled tables
statsRow(u) ==
  [totalSprints |-> Cardinality({i \in SprintIds : sprints[i].exists}),
   completedSprints |->
     Cardinality({i \in SprintIds :
                    progress[<<u, i>>].exists /\ progress[<<u, i>>].is_completed = 1})]

\* GET /api/users/:id/stats.  The client receives the first response; a
\* second sendResponse calls writeHead on a finished response and throws.
GetStats(hdr, segment) ==
  LET sends == statsSends(hdr, segment)
  IN /\ Idle
     /\ Answer("stats", hdr, Head(sends), 0, NoText,
               [sends |-> sends,
                requested |-> ParseInt(segment),
                threw |-> Len(sends) > 1,
                stats |-> IF sends = <<200>> THEN statsRow(Caller(hdr))
                          ELSE [totalSprints |-> 0, completedSprints |-> 0]])

StatsSegments == {<<"1">>, <<"2">>, <<"3">>, <<"a">>}

NextStats ==
  \/ EndResponse
  \/ CreateSprint(NoHeader, SprintBody(TRUE, Num(5)))
  \/ \E hdr \in Owners, sid \in ProgressSprints, done \in BOOLEAN :
       SaveProgress(hdr, ProgressBody(sid, Num(50), Bool(done)))
  \/ \E hdr \in Headers, segment \in StatsSegments : GetStats(hdr, segment)

SpecStats == Init /\ [][NextStats]_vars

\* C26: a stats request is answered by exactly one sendResponse call, also
\* when X-User-Id is missing or invalid, and an authenticated request for
\* another user's stats is answered by the 403 alone.
C26_OneResponse ==
  response.route = "stats" =>
    /\ Len(response.data.sends) = 1
    /\ (authenticate(response.hdr)
        /\ ~SameUser(response.data.requested, UserIdOf(response.hdr)))
         => response.data.sends = <<403>>

(***************************************************************************)
(* What a toggle request changes                                           *)
(***************************************************************************)
\* C27: a PUT /api/sprints/:id/active answered 400 or 404 has changed the
\* is_active flag of no sprint, and a deactivation request has changed at
\* most the flag of its target.
C27_ToggleErrorChangesNothing ==
  \A r \in Slots :
    flights[r].pc = "done" =>
      /\ flights[r].code \in {400, 404} => flights[r].touched = {}
      /\ ~flights[r].shouldActivate => flights[r].touched \subseteq {flights[r].id}

(***************************************************************************)
(* Shape of the stored reflections                                         *)
(***************************************************************************)
\* C28: in every reachable state a reflection whose status is marked or
\* rejected has a score in 0..10, a non-empty admin_feedback and marked_at
\* set, and a reflection whose status is submitted has submitted_at set.
C28_ReflectionShape ==
  \A p \in Pairs :
    /\ reflections[p].status \in {"marked", "rejected"}
         => /\ reflections[p].score \in 0..10
            /\ reflections[p].admin_feedback # <<>>
            /\ reflections[p].marked_at # NULL
    /\ reflections[p].status = "submitted" => reflections[p].submitted_at # NULL

(***************************************************************************)
(* Per-user isolation of the reflection, notes and progress routes         *)
(***************************************************************************)
IsolatedRoutes ==
  {"progress.get", "progress.save", "notes.get", "notes.save", "reflection.get",
   "reflection.draft", "reflection.submit", "reflection.resubmit"}

\* the rows of user u
OwnPairs(u) == {p \in Pairs : p[1] = u}
OwnProgress(u) == {k \in ProgressKeys : k[1] = u}
OwnNotes(u) == {k \in NoteKeys : k[1] = u}

\* a step that answers a request on one of the isolated routes
IsolatedCall == Idle /\ response'.route \in IsolatedRoutes

\* the call leaves every row of every user but the caller as it was
OthersUnchanged ==
  LET u == Caller(response'.hdr)
  IN /\ \A p \in Pairs \ OwnPairs(u) : reflections'[p] = reflections[p]
     /\ \A k \in ProgressKeys \ OwnProgress(u) : progress'[k] = progress[k]
     /\ \A k \in NoteKeys \ OwnNotes(u) : notes'[k] = notes[k]

\* what a GET answers is computed from the caller's rows
ReadsOwnRows ==
  LET u == Caller(response'.hdr)
      r == response'
  IN r.code = 200 =>
       /\ r.route = "reflection.get" =>
            r.data = IF reflections[<<u, r.lesson>>].id # 0
                     THEN reflections[<<u, r.lesson>>]
                     ELSE [NoRow EXCEPT !.status = "draft"]
       /\ r.route = "notes.get" =>
            LET k == <<u, toLowerCase(r.body.contentType), r.body.contentId.v>>
            IN r.data = IF notes[k].exists THEN notes[k].note_text ELSE <<>>
       /\ r.route = "progress.get" =>
            r.data = [i \in {j \in SprintIds : progress[<<u, j>>].exists} |->
                        [progress |-> progress[<<u, i>>].progress_percentage,
                         completed |-> progress[<<u, i>>].is_completed = 1]]

\* the status code of a write as the request, the caller's rows and the
\* users and sprints tables give it
WriteCode ==
  LET u == Caller(response'.hdr)
      r == response'
      b == r.body
      p == <<u, r.lesson>>
  IN IF ~authenticate(r.hdr) THEN 401
     ELSE IF ~b.json THEN 400
     ELSE IF r.route = "reflection.draft"
       THEN IF TextFalsy(b) THEN 400
            ELSE IF reflections[p].id = 0 /\ users[u] = "none" THEN 500 ELSE 200
     ELSE IF r.route = "reflection.submit"
       THEN IF TrimmedFalsy(b) THEN 400
            ELSE IF reflections[p].id = 0 /\ users[u] = "none" THEN 500 ELSE 200
     ELSE IF r.route = "reflection.resubmit"
       THEN IF TrimmedFalsy(b) THEN 400
            ELSE IF reflections[p].id = 0 THEN 404 ELSE 200
     ELSE IF r.route = "notes.save"
       THEN IF b.contentType = <<>> \/ b.contentId.k = "undefined"
               \/ b.noteText.k = "undefined" THEN 400
            ELSE IF ~notes[<<u, b.contentType, b.contentId.v>>].exists
                    /\ users[u] = "none" THEN 500 ELSE 200
     ELSE IF b.sprint_id = 0 \/ b.progress_percentage.k = "undefined"
             \/ b.is_completed.k = "undefined" THEN 400
          ELSE IF ~progress[<<u, b.sprint_id>>].exists
                  /\ ~(users[u] # "none" /\ sprints[b.sprint_id].exists) THEN 400
          ELSE 200

WritesAnsweredFromOwnRows ==
  response'.route \in {"reflection.draft", "reflection.submit", "reflection.resubmit",
                       "notes.save", "progress.save"}
    => response'.code = WriteCode

\* the ids of the caller's reflections are those the caller's own inserts
\* give them when nobody else stores anything: 1, 2, ... in order
IdsFromOwnInserts ==
  LET u == Caller(response'.hdr)
      mine == {p \in OwnPairs(u) : reflections[p].id # 0}
  IN (response'.route = "reflection.get" /\ response'.code = 200)
       => {reflections[p].id : p \in mine} = 1..Cardinality(mine)

\* C29 as stated: a call on the reflection, notes and progress routes with
\* X-User-Id u changes no row of another user and is answered from u's rows
\* alone, so that u gets the responses of the run in which the other users
\* stored nothing, the id of a reflection that u reads included.
C29_SameResponsesInEveryRun ==
  [][IsolatedCall =>
       /\ OthersUnchanged
       /\ ReadsOwnRows
       /\ WritesAnsweredFromOwnRows
       /\ IdsFromOwnInserts]_vars

\* C29, amended: a call on the reflection, notes and progress routes with
\* X-User-Id u changes no row of another user, and its response is computed
\* from the request, u's own rows and the users and sprints tables; the id
\* in u's reflection row comes from the counter that all users share.
C29_Isolation ==
  [][IsolatedCall =>
       /\ OthersUnchanged
       /\ ReadsOwnRows
       /\ WritesAnsweredFromOwnRows]_vars

\* user 1 reads the own draft, stored second, while user 2 has a submitted
\* reflection, a note and a progress row
C29_Witness ==
  /\ response.route = "reflection.get"
  /\ response.code = 200
  /\ Caller(response.hdr) = 1
  /\ response.data.id = 2
  /\ response.data.status = "draft"
  /\ reflections[<<2, 1>>].status = "submitted"
  /\ notes[<<2, <<"n">>, 1>>].exists
  /\ progress[<<2, 1>>].exists

====
